---- MODULE Spec2Model ----
(***************************************************************************)
(* Synchronous retrying of script / link / img assets (src/retry-sync.ts). *)
(*                                                                         *)
(* The state is the document (its elements, in document order), the       *)
(* per-domain collectors, the module-level retryCache and the options      *)
(* given to initSync.  One action per handler: the capture-phase error     *)
(* listener, the capture-phase load listener and the one-time scan of the  *)
(* elements already present.  URLs are sequences of tokens, e.g.           *)
(* <<"http://", "a.com", "/", "i.png">>, so that replacing and splitting   *)
(* are computed, not assumed.                                              *)
(***************************************************************************)
EXTENDS Integers, Sequences, FiniteSets, TLC

VARIABLES
    opts,               \* the options of initSync: maxRetryCount and domain
    dom,                \* the elements of the document, in document order
    collectors,         \* domain -> [retryTimes, failed, succeeded]
    retryCache,         \* identifiers of the elements already retried
    scanned,            \* processExistingElements has run
    reloads,            \* history: element id -> reloads issued for it
    notified,           \* history: domain -> failures that reached the bookkeeping
    last,               \* history: the latest step, what it read and what it called
    pre,                \* history: the state the latest step started from
    streak,             \* history: the latest run of retried failures of one element
    vetoed,             \* history: elements for which onRetry once returned null
    tally,              \* history: domain -> onRetry calls made, reloads issued
    nEvents             \* load / error notifications delivered so far

vars == <<opts, dom, collectors, retryCache, scanned, reloads, notified,
          last, pre, streak, vetoed, tally, nEvents>>

(* ------------------------------ bounds ------------------------------- *)
MaxRetry == 2       \* opts.maxRetryCount ranges over 0..MaxRetry
MaxElems == 3       \* elements the document may hold
MaxEvents == 3      \* load / error notifications delivered

\* the page itself brings MaxPage elements; the others are left to reloads
MaxPage == MaxElems - 2

(* ------------------------------ values ------------------------------- *)
NoUrl == <<>>
NoDomain == ""

Url(host, name) == <<"http://", host, "/", name>>

\* URLs of the elements the page brings: under a mapped domain, under an
\* unmapped one, and one whose path repeats the domain.
PageUrls == {Url("a.com", "i.png"), Url("c.com", "i.png"), Url("a.com", "a.com")}

\* opts.domain: a -> b only; a -> b -> a; a -> b with b a key without fallback
DomainMaps ==
    { "a.com" :> "b.com",
      ("a.com" :> "b.com") @@ ("b.com" :> "a.com"),
      ("a.com" :> "b.com") @@ ("b.com" :> "") }

Kinds == {"script", "link", "img", "other"}

\* what onRetry may return: the candidate, the original URL, null, a non-string
Rets == {"cand", "orig", "null", "other"}

\* what doc.styleSheets holds for a link: there is no doc.styleSheets, no
\* sheet with its href, a sheet whose rules cannot be read, a sheet without
\* rules, a sheet with rules
SheetObs == {"unsupported", "absent", "opaque", "empty", "rules"}

\* an image: not complete, complete with naturalWidth 0, complete with
\* naturalHeight 0, complete with both non-zero
ImgObs == {"pending", "zeroW", "zeroH", "ok"}

Min(S) == CHOOSE x \in S : \A y \in S : x <= y

(* ----------------------- helpers of ./util, ./url -------------------- *)
\* stringReplace(url, from, to): first literal occurrence only
stringReplace(s, from, to) ==
    LET hits == {i \in 1..Len(s) : s[i] = from}
    IN  IF hits = {} THEN s ELSE [s EXCEPT ![Min(hits)] = to]

\* splitUrl(url, domainMap) -> [logical path, domain]
splitUrl(url, map) ==
    LET hits == {i \in 1..Len(url) : url[i] \in DOMAIN map}
    IN  IF hits = {}
        THEN [path |-> <<>>, domain |-> NoDomain]
        ELSE [path |-> SubSeq(url, Min(hits) + 1, Len(url)),
              domain |-> url[Min(hits)]]

NewCollector == [retryTimes |-> 0, failed |-> <<>>, succeeded |-> <<>>]

\* extractInfoFromUrl(url, domainMap) -> [domain, collector]; the collector
\* of a classified domain is created on first reference.  Returns the
\* domain and the store after the call.
extractInfoFromUrl(col, url, map) ==
    LET d == splitUrl(url, map).domain
    IN  IF d = NoDomain
        THEN [domain |-> NoDomain, col |-> col]
        ELSE [domain |-> d,
              col |-> IF d \in DOMAIN col THEN col ELSE col @@ (d :> NewCollector)]

\* getTargetUrl(target): src of a script or image, href of a link, else null
getTargetUrl(target) ==
    IF target.kind \in {"script", "link", "img"} THEN target.url ELSE NoUrl

\* hashTarget(target): an identifier stable per element instance
hashTarget(target) == target.id

\* getCssRules(styleSheet): the rule list, null when it cannot be read
\* (also for the undefined sheet of a link that matches none)
getCssRules(sheet) ==
    CASE sheet = "absent" -> "null"
      [] sheet = "opaque" -> "null"
      [] sheet = "empty"  -> "none"
      [] sheet = "rules"  -> "some"

(* ------------------------- the document ------------------------------ *)
Ids(d) == {d[i].id : i \in 1..Len(d)}
PosOf(d, id) == CHOOSE i \in 1..Len(d) : d[i].id = id
Elem(d, id) == d[PosOf(d, id)]

InsertAfter(d, pos, e) ==
    SubSeq(d, 1, pos) \o <<e>> \o SubSeq(d, pos + 1, Len(d))

NewElement(id, kind, url, rel, ignore, hooked) ==
    [id |-> id, kind |-> kind, url |-> url, rel |-> rel,
     ignore |-> ignore, hooked |-> hooked, marker |-> FALSE]

\* loadNextScript / loadNextLink: a new element of the same kind carrying
\* the new URL is inserted next to the failed one, which stays as it is
LoadNext(w, target, url) ==
    IF Len(w.dom) >= MaxElems
    THEN [w EXCEPT !.full = TRUE]
    ELSE [w EXCEPT
            !.dom = InsertAfter(@, PosOf(@, target.id),
                        NewElement(Len(@) + 1, target.kind, url, target.rel,
                                   FALSE, FALSE)),
            !.reloads[target.id] = @ + 1]

loadNextScript(w, target, url) == LoadNext(w, target, url)
loadNextLink(w, target, url) == LoadNext(w, target, url)

(* --------------------------- errorHandler ---------------------------- *)
\* an entry of a step's log.  cb = "fail": a failure of the element reached
\* the bookkeeping of lines 73-74, as the k-th one of its domain.  cb =
\* "succeeded": the URL of the element was appended to a succeeded list.
\* Otherwise a callback invocation: which callback, for which element and URL, its
\* first argument, the collector's retryTimes at the call, what it returned.
Call(cb, target, url, arg, rc, ret) ==
    [cb |-> cb, el |-> target.id, url |-> url, arg |-> arg, rc |-> rc,
     ret |-> ret, k |-> 0]

FailEntry(target, url, domain, rc, k) ==
    [cb |-> "fail", el |-> target.id, url |-> url, arg |-> <<domain>>, rc |-> rc,
     ret |-> "void", k |-> k]

\* domainMap[currentDomain], undefined read as the empty string
Fallback(d) == IF d \in DOMAIN opts.domain THEN opts.domain[d] ELSE ""

hasIgnoreIdentifier(target) == target.ignore

OutOfScope(domain, target) ==
    domain = NoDomain \/ hasIgnoreIdentifier(target)

NotStylesheetLink(target) ==
    target.kind = "link" /\ target.rel # "stylesheet"

\* no retry ever the final one
IsFinalRetryNever(retryTimes) == FALSE

\* the comparison off by one
IsFinalRetryFromThreshold(retryTimes) == retryTimes >= opts.maxRetryCount

IsFinalRetry(retryTimes) == retryTimes > opts.maxRetryCount

\* the retry stopped by a missing fallback only
CannotSwitchIgnoringFinal(d, isFinalRetry) == Fallback(d) = ""

CannotSwitch(d, isFinalRetry) == Fallback(d) = "" \/ isFinalRetry

\* the value onRetry(newUrl, originalUrl, collector) returns
UserModifiedUrl(ret, newUrl, originalUrl) ==
    CASE ret = "cand"  -> newUrl
      [] ret = "orig"  -> originalUrl
      [] ret = "null"  -> NoUrl
      [] ret = "other" -> NoUrl

\* null not told from the other values
IsNullNever(ret) == FALSE

IsNull(ret) == ret = "null"

\* the typeof check left out
IsStringAlways(ret) == TRUE

IsString(ret) == ret \in {"cand", "orig"}

\* images sent to the cache like scripts and links
IsImageReloadNever(target) == FALSE

IsImageReload(target) == target.kind = "img" /\ target.url # NoUrl

\* the cache never consulted
InRetryCacheNever(cache, elementId) == FALSE

InRetryCache(cache, elementId) == elementId \in cache

CanLoadNextScript(target) ==
    target.kind = "script" /\ ~target.hooked /\ target.url # NoUrl

CanLoadNextLink(target) ==
    target.kind = "link" /\ ~target.hooked /\ target.url # NoUrl

\* lines 96-122: the reload, once onRetry has returned a string
Reload(w, target, userModifiedUrl) ==
    IF IsImageReload(target)
    THEN [w EXCEPT !.dom[PosOf(w.dom, target.id)].marker = TRUE,
                   !.dom[PosOf(w.dom, target.id)].url = userModifiedUrl,
                   !.reloads[target.id] = @ + 1]
    ELSE LET elementId == hashTarget(target)
         IN  IF InRetryCache(w.cache, elementId)
             THEN w
             ELSE LET w1 == [w EXCEPT !.cache = @ \cup {elementId}]
                  IN  IF CanLoadNextScript(target)
                      THEN loadNextScript(w1, target, userModifiedUrl)
                      ELSE IF CanLoadNextLink(target)
                      THEN loadNextLink(w1, target, userModifiedUrl)
                      ELSE w1

\* the failure counted and its URL not kept
BookFailureCountOnly(col, currentDomain, originalUrl) ==
    [col EXCEPT ![currentDomain].retryTimes = @ + 1]

\* lines 73-74
BookFailure(col, currentDomain, originalUrl) ==
    [col EXCEPT ![currentDomain].retryTimes = @ + 1,
                ![currentDomain].failed = Append(@, originalUrl)]

\* lines 73-95: the bookkeeping and the retry decision of a classified failure
Retry(w, target, originalUrl, currentDomain, ret) ==
    LET col1 == BookFailure(w.col, currentDomain, originalUrl)
        isFinalRetry == IsFinalRetry(col1[currentDomain].retryTimes)
        srcPath == splitUrl(originalUrl, opts.domain).path
        k == w.notified[currentDomain] + 1
        entered == Append(w.calls, FailEntry(target, originalUrl, currentDomain,
                                             col1[currentDomain].retryTimes, k))
        w1 == [w EXCEPT
                 !.col = col1,
                 !.notified[currentDomain] = k,
                 !.calls = IF isFinalRetry
                           THEN Append(entered, Call("onFail", target, originalUrl,
                                     srcPath, col1[currentDomain].retryTimes, "void"))
                           ELSE entered]
    IN  IF CannotSwitch(currentDomain, isFinalRetry)
        THEN w1
        ELSE LET newDomain == Fallback(currentDomain)
                 newUrl == stringReplace(originalUrl, currentDomain, newDomain)
                 w2 == [w1 EXCEPT !.calls =
                          Append(@, Call("onRetry", target, originalUrl, newUrl,
                                     col1[currentDomain].retryTimes, ret))]
             IN  IF IsNull(ret)
                 THEN w2
                 ELSE IF ~IsString(ret)
                 THEN [w2 EXCEPT !.thrown = TRUE]
                 ELSE Reload(w2, target, UserModifiedUrl(ret, newUrl, originalUrl))

\* errorHandler(event) with event.target the element id
errorHandler(w, id, ret) ==
    LET target == Elem(w.dom, id)
        originalUrl == getTargetUrl(target)
    IN  IF originalUrl = NoUrl
        THEN w
        ELSE LET info == extractInfoFromUrl(w.col, originalUrl, opts.domain)
                 w1 == [w EXCEPT !.col = info.col]
             IN  IF OutOfScope(info.domain, target)
                 THEN w1
                 ELSE IF NotStylesheetLink(target)
                 THEN w1
                 ELSE Retry(w1, target, originalUrl, info.domain, ret)

(* ---------------------------- loadHandler ---------------------------- *)
\* doc.styleSheets is there
SupportStyleSheets(sheet) == sheet # "unsupported"

\* rules that cannot be read not told from rules that can
RulesNullNever(rules) == FALSE

RulesNull(rules) == rules = "null"

\* an empty rule list taken for a loaded sheet
RulesEmptyNever(rules) == FALSE

RulesEmpty(rules) == rules = "none"

\* currentCollector[succeededProp].push(url), for the element it is about
SucceededEntry(target, url, domain, rc) ==
    [cb |-> "succeeded", el |-> target.id, url |-> url, arg |-> <<domain>>,
     rc |-> rc, ret |-> "void", k |-> 0]

\* the URL not recorded
PushSucceededNever(w, element, currentDomain, url) == w

\* the list replaced, not appended to
PushSucceededOverwrite(w, element, currentDomain, url) ==
    [w EXCEPT !.col[currentDomain].succeeded = <<url>>,
              !.calls = Append(@, SucceededEntry(element, url, currentDomain,
                                     w.col[currentDomain].retryTimes))]

PushSucceeded(w, element, currentDomain, url) ==
    [w EXCEPT !.col[currentDomain].succeeded = Append(@, url),
              !.calls = Append(@, SucceededEntry(element, url, currentDomain,
                                     w.col[currentDomain].retryTimes))]

\* callOnSuccess: the collector, when there is one, gets the URL; onSuccess
\* is called with the logical path
callOnSuccess(w, target, originalUrl, currentDomain) ==
    LET srcPath == splitUrl(originalUrl, opts.domain).path
        rc == IF currentDomain = NoDomain THEN 0
              ELSE w.col[currentDomain].retryTimes
        w1 == IF currentDomain = NoDomain THEN w
              ELSE PushSucceeded(w, target, currentDomain, originalUrl)
    IN  [w1 EXCEPT
           !.calls = Append(@, Call("onSuccess", target, originalUrl, srcPath,
                                    rc, "void"))]

\* loadHandler(event); sheet is what doc.styleSheets holds for the target
loadHandler(w, id, sheet, ret) ==
    LET target == Elem(w.dom, id)
        originalUrl == getTargetUrl(target)
    IN  IF originalUrl = NoUrl
        THEN w
        ELSE LET info == extractInfoFromUrl(w.col, originalUrl, opts.domain)
                 w1 == [w EXCEPT !.col = info.col]
             IN  IF target.kind # "link"
                 THEN callOnSuccess(w1, target, originalUrl, info.domain)
                 ELSE IF ~SupportStyleSheets(sheet)
                 THEN w1
                 ELSE LET rules == getCssRules(sheet)
                      IN  IF RulesNull(rules)
                          THEN w1
                          ELSE IF RulesEmpty(rules)
                          THEN errorHandler(w1, id, ret)
                          ELSE callOnSuccess(w1, target, originalUrl, info.domain)

(* --------------------- processExistingElements ----------------------- *)
\* lines 185-194
ScanScript(w, id) ==
    LET element == Elem(w.dom, id)
        url == getTargetUrl(element)
    IN  IF url = NoUrl
        THEN w
        ELSE LET info == extractInfoFromUrl(w.col, url, opts.domain)
                 w1 == [w EXCEPT !.col = info.col]
             IN  IF info.domain = NoDomain
                 THEN w1
                 ELSE PushSucceeded(w1, element, info.domain, url)

\* lines 197-227
ScanLink(w, id, sheet, ret) ==
    LET element == Elem(w.dom, id)
        url == getTargetUrl(element)
    IN  IF url = NoUrl \/ element.rel # "stylesheet"
        THEN w
        ELSE LET info == extractInfoFromUrl(w.col, url, opts.domain)
                 w1 == [w EXCEPT !.col = info.col]
             IN  IF info.domain = NoDomain
                 THEN w1
                 ELSE IF element.ignore
                 THEN w1
                 ELSE IF ~SupportStyleSheets(sheet)
                 THEN w1
                 ELSE IF sheet # "absent"
                 THEN LET rules == getCssRules(sheet)
                      IN  IF RulesNull(rules) \/ RulesEmpty(rules)
                          THEN errorHandler(w1, id, ret)
                          ELSE PushSucceeded(w1, element, info.domain, url)
                 ELSE errorHandler(w1, id, ret)

\* the height not looked at
BrokenImageByWidth(complete, naturalWidth, naturalHeight) ==
    complete /\ naturalWidth = 0

\* line 241
BrokenImage(complete, naturalWidth, naturalHeight) ==
    complete /\ (naturalWidth = 0 \/ naturalHeight = 0)

\* lines 230-249
ScanImage(w, id, img, ret) ==
    LET element == Elem(w.dom, id)
        url == getTargetUrl(element)
        complete == img # "pending"
        naturalWidth == IF img \in {"zeroW", "pending"} THEN 0 ELSE 1
        naturalHeight == IF img \in {"zeroH", "pending"} THEN 0 ELSE 1
    IN  IF url = NoUrl
        THEN w
        ELSE LET info == extractInfoFromUrl(w.col, url, opts.domain)
                 w1 == [w EXCEPT !.col = info.col]
             IN  IF info.domain = NoDomain
                 THEN w1
                 ELSE IF element.ignore
                 THEN w1
                 ELSE IF BrokenImage(complete, naturalWidth, naturalHeight)
                 THEN errorHandler(w1, id, ret)
                 ELSE IF complete
                 THEN PushSucceeded(w1, element, info.domain, url)
                 ELSE w1

\* the ids of the elements a selector matches, in document order
RECURSIVE QuerySelectorAll(_, _, _)
QuerySelectorAll(d, kind, rels) ==
    IF d = <<>> THEN <<>>
    ELSE (IF Head(d).kind = kind /\ Head(d).rel \in rels
          THEN <<Head(d).id>> ELSE <<>>)
         \o QuerySelectorAll(Tail(d), kind, rels)

ScanOne(w, id, kind, ins) ==
    CASE kind = "script" -> ScanScript(w, id)
      [] kind = "link"   -> ScanLink(w, id, ins[id].obs, ins[id].ret)
      [] kind = "img"    -> ScanImage(w, id, ins[id].obs, ins[id].ret)

\* forEach: an Error thrown by a callback ends the whole scan
RECURSIVE ForEach(_, _, _, _)
ForEach(w, ids, kind, ins) ==
    IF ids = <<>> \/ w.thrown
    THEN w
    ELSE ForEach(ScanOne(w, Head(ids), kind, ins), Tail(ids), kind, ins)

\* ins: for each link and image, what the scan observes of it and what
\* onRetry returns if it is called for it
processExistingElements(w, ins) ==
    LET scripts == QuerySelectorAll(w.dom, "script", {"", "stylesheet", "icon"})
        links == QuerySelectorAll(w.dom, "link", {"stylesheet"})
        images == QuerySelectorAll(w.dom, "img", {"", "stylesheet", "icon"})
        w1 == ForEach(w, scripts, "script", ins)
        w2 == ForEach(w1, links, "link", ins)
    IN  ForEach(w2, images, "img", ins)

(* ------------------------------ actions ------------------------------ *)
\* the mutable world a handler starts from
World ==
    [dom |-> dom, col |-> collectors, cache |-> retryCache, calls |-> <<>>,
     reloads |-> reloads, notified |-> notified, thrown |-> FALSE, full |-> FALSE]

NoObs == [x \in {} |-> "absent"]

\* onRetry was called for element el in this log and returned a string
Retried(log, el) ==
    \E i \in 1..Len(log) :
        log[i].cb = "onRetry" /\ log[i].el = el /\ log[i].ret \in {"cand", "orig"}

Hosts == {"a.com", "b.com", "c.com"}

\* the onRetry calls of a log made for a URL under domain h
Asked(log, h) ==
    {j \in 1..Len(log) :
        log[j].cb = "onRetry" /\ splitUrl(log[j].url, opts.domain).domain = h}

\* the elements, at a URL under domain h, that the step ending in w reloaded
Issued(w, h) ==
    {id \in Ids(dom) :
        /\ w.reloads[id] > reloads[id]
        /\ splitUrl(Elem(dom, id).url, opts.domain).domain = h}

\* the step op on element el (0: none) that read obs ends in world w
Commit(w, op, el, url, obs) ==
    /\ ~w.full
    /\ vetoed' = vetoed \cup {w.calls[i].el : i \in {j \in 1..Len(w.calls) :
                                  w.calls[j].cb = "onRetry" /\ w.calls[j].ret = "null"}}
    /\ streak' = IF op = "error" /\ Retried(w.calls, el)
                 THEN [el |-> el, n |-> IF streak.el = el THEN streak.n + 1 ELSE 1]
                 ELSE [el |-> 0, n |-> 0]
    /\ tally' = [h \in Hosts |->
                   [onRetry |-> tally[h].onRetry + Cardinality(Asked(w.calls, h)),
                    reloads |-> tally[h].reloads + Cardinality(Issued(w, h))]]
    /\ dom' = w.dom
    /\ collectors' = w.col
    /\ retryCache' = w.cache
    /\ reloads' = w.reloads
    /\ notified' = w.notified
    /\ last' = [op |-> op, el |-> el, url |-> url, obs |-> obs,
                log |-> w.calls, thrown |-> w.thrown]
    /\ pre' = [dom |-> dom, col |-> collectors, cache |-> retryCache,
               reloads |-> reloads, notified |-> notified, vetoed |-> vetoed]

\* the elements a page brings: each kind unmarked, ignore-marked or hooked
\* under the mapped domain, a link that is no stylesheet, and unmarked ones
\* under an unmapped domain or with the domain repeated in the path
PageElements ==
    {[kind |-> k, url |-> Url("a.com", "i.png"), rel |-> "", ignore |-> m[1], hooked |-> m[2]] :
        k \in {"script", "img"}, m \in {<<FALSE, FALSE>>, <<TRUE, FALSE>>, <<FALSE, TRUE>>}}
    \cup
    {[kind |-> "link", url |-> Url("a.com", "i.png"), rel |-> "stylesheet", ignore |-> m[1], hooked |-> m[2]] :
        m \in {<<FALSE, FALSE>>, <<TRUE, FALSE>>, <<FALSE, TRUE>>}}
    \cup
    {[kind |-> k, url |-> u, rel |-> IF k = "link" THEN "stylesheet" ELSE "",
      ignore |-> FALSE, hooked |-> FALSE] :
        k \in {"script", "link", "img"}, u \in PageUrls}
    \cup
    {[kind |-> "link", url |-> Url("a.com", "i.png"), rel |-> "icon", ignore |-> FALSE, hooked |-> FALSE],
     [kind |-> "other", url |-> NoUrl, rel |-> "", ignore |-> FALSE, hooked |-> FALSE]}

\* the page brings an element (parsed from the markup or inserted by a script)
AddElement(kind, url, rel, ignore, hooked) ==
    /\ Len(dom) < MaxPage
    /\ \E w \in {[World EXCEPT !.dom = Append(@, NewElement(Len(@) + 1, kind,
                                                 url, rel, ignore, hooked))]} :
         Commit(w, "add", Len(dom) + 1, url, NoObs)
    /\ UNCHANGED <<opts, scanned, nEvents>>

\* an error notification reaches the capture-phase listener
ErrorEvent(id, ret) ==
    /\ nEvents < MaxEvents
    /\ \E w \in {errorHandler(World, id, ret)} :
         Commit(w, "error", id, getTargetUrl(Elem(dom, id)), NoObs)
    /\ nEvents' = nEvents + 1
    /\ UNCHANGED <<opts, scanned>>

\* a load notification reaches the capture-phase listener
LoadEvent(id, sheet, ret) ==
    /\ nEvents < MaxEvents
    /\ \E w \in {loadHandler(World, id, sheet, ret)} :
         Commit(w, "load", id, getTargetUrl(Elem(dom, id)), id :> sheet)
    /\ nEvents' = nEvents + 1
    /\ UNCHANGED <<opts, scanned>>

\* processExistingElements runs, at once or on DOMContentLoaded
Scan(ins) ==
    /\ ~scanned
    /\ scanned' = TRUE
    /\ \E w \in {processExistingElements(World, ins)} :
         Commit(w, "scan", 0, NoUrl, [id \in DOMAIN ins |-> ins[id].obs])
    /\ UNCHANGED <<opts, nEvents>>

NoStep == [op |-> "init", el |-> 0, url |-> NoUrl, obs |-> NoObs,
           log |-> <<>>, thrown |-> FALSE]

Init ==
    /\ opts \in [maxRetryCount : 0..MaxRetry, domain : DomainMaps]
    /\ dom = <<>>
    /\ collectors = <<>>
    /\ retryCache = {}
    /\ scanned = FALSE
    /\ reloads = [i \in 1..MaxElems |-> 0]
    /\ notified = [h \in Hosts |-> 0]
    /\ last = NoStep
    /\ pre = [dom |-> <<>>, col |-> <<>>, cache |-> {},
              reloads |-> [i \in 1..MaxElems |-> 0],
              notified |-> [h \in Hosts |-> 0], vetoed |-> {}]
    /\ streak = [el |-> 0, n |-> 0]
    /\ vetoed = {}
    /\ tally = [h \in Hosts |-> [onRetry |-> 0, reloads |-> 0]]
    /\ nEvents = 0

\* the inputs of a handler for one element: what it observes (the sheet of
\* a link, the state of an image) and what onRetry returns if it is called.
\* The observation `failing` dispatches to errorHandler and meets every
\* return value; the observations `alike` take the same dispatch, which
\* does not read them again, and meet one; after the observations `others`
\* onRetry is not called.
Inputs(failing, alike, others) ==
    {[obs |-> o, ret |-> r] : o \in failing, r \in Rets}
    \cup {[obs |-> o, ret |-> "cand"] : o \in alike}
    \cup {[obs |-> o, ret |-> "null"] : o \in others}

LoadInputs(e) ==
    IF e.kind = "link"
    THEN Inputs({"empty"}, {}, {"unsupported", "absent", "opaque", "rules"})
    ELSE Inputs({}, {}, {"absent"})

ScanInputs(e, support) ==
    CASE e.kind = "link" /\ support  -> Inputs({"absent"}, {"opaque", "empty"}, {"rules"})
      [] e.kind = "link" /\ ~support -> Inputs({}, {}, {"unsupported"})
      [] e.kind = "img"               -> Inputs({"zeroW"}, {"zeroH"}, {"pending", "ok"})
      [] OTHER                        -> Inputs({}, {}, {"absent"})

\* every assignment of scan inputs to the elements ids of document d
RECURSIVE AllScanInputs(_, _, _)
AllScanInputs(d, ids, support) ==
    IF ids = {}
    THEN {[x \in {} |-> [obs |-> "absent", ret |-> "null"]]}
    ELSE LET id == CHOOSE x \in ids : TRUE
         IN  {f @@ (id :> c) : f \in AllScanInputs(d, ids \ {id}, support),
                               c \in ScanInputs(Elem(d, id), support)}

Next ==
    \/ \E e \in PageElements : AddElement(e.kind, e.url, e.rel, e.ignore, e.hooked)
    \/ \E id \in Ids(dom), ret \in Rets : ErrorEvent(id, ret)
    \/ \E id \in Ids(dom) : \E in \in LoadInputs(Elem(dom, id)) :
         LoadEvent(id, in.obs, in.ret)
    \/ \E support \in BOOLEAN : \E ins \in AllScanInputs(dom, Ids(dom), support) :
         Scan(ins)

Spec == Init /\ [][Next]_vars

(* ------------- a resource every load attempt of which fails ---------- *)
\* the options whose retries fit the bounds on elements and notifications:
\* with two domains a resource is loaded up to 2 * maxRetryCount + 1 times
LiveRetry == Min({MaxRetry, (MaxElems - 1) \div 2, (MaxEvents - 1) \div 2})

\* the element whose load attempt has not been reported yet (0: none): the
\* one the page brought, the element loadNextScript / loadNextLink inserted
\* or the image whose src was set by the latest failure
Outstanding ==
    CASE last.op = "add" -> last.el
      [] last.op = "error" /\ reloads # pre.reloads ->
            IF Elem(dom, last.el).kind = "img" THEN last.el ELSE Len(dom)
      [] OTHER -> 0

\* the load attempt that is outstanding fails and the error notification
\* reaches the listener
FailureDelivered(ret) ==
    /\ Outstanding # 0
    /\ ErrorEvent(Outstanding, ret)

LiveInit ==
    /\ Init
    /\ opts.maxRetryCount <= LiveRetry

\* the page brings the resource, its only element
ResourceLoads(e) ==
    /\ dom = <<>>
    /\ AddElement(e.kind, e.url, e.rel, e.ignore, e.hooked)

LiveNext ==
    \/ \E e \in PageElements : ResourceLoads(e)
    \/ \E ret \in Rets : FailureDelivered(ret)

\* a step of FailureDelivered, told by what it does to nEvents: within
\* LiveNext no other step adds to it, and one is possible whenever a load
\* attempt is outstanding and notifications remain (whatever the document
\* holds, the failure for which onRetry returns null inserts nothing)
Delivered ==
    /\ Outstanding # 0
    /\ nEvents < MaxEvents
    /\ nEvents' = nEvents + 1

\* every load attempt fails and its error notification is delivered
LiveSpec ==
    /\ LiveInit
    /\ [][LiveNext]_vars
    /\ WF_nEvents(Delivered)

(* ------------------------- reading the history ----------------------- *)
Log == last.log
N == opts.maxRetryCount

Classified(url) == splitUrl(url, opts.domain).domain # NoDomain
DomainOf(url) == splitUrl(url, opts.domain).domain
LogicalPath(url) == splitUrl(url, opts.domain).path

\* the element is one the failure path keeps books for
InScope(e) ==
    /\ e.kind \in {"script", "link", "img"}
    /\ Classified(e.url)
    /\ ~e.ignore
    /\ (e.kind = "link" => e.rel = "stylesheet")

\* the latest step delivered one failure notification for element e: an
\* error event, or a load event of a link whose sheet has an empty rule list
FailureOf(e) ==
    /\ last.el = e.id
    /\ \/ last.op = "error"
       \/ last.op = "load" /\ e.kind = "link" /\ last.obs[e.id] = "empty"

\* the collector of domain d before the latest step
PreCollector(d) == IF d \in DOMAIN pre.col THEN pre.col[d] ELSE NewCollector

\* the entries cb of the log that belong to the failure logged at index i
Owned(i, cb) ==
    {j \in (i + 1)..Len(Log) :
        Log[j].cb = cb /\ \A m \in (i + 1)..j : Log[m].cb # "fail"}

Fails == {i \in 1..Len(Log) : Log[i].cb = "fail"}

(* ------------------------------- C1 ---------------------------------- *)
\* C1: a script or stylesheet element is reloaded by loadNextScript /
\* loadNextLink at most once, whatever failures it generates (live, from the
\* load handler or from the scan); a failure of an element that was already
\* reloaded still adds one to retryTimes and appends the URL to failed, and
\* reloads nothing.
C1_AtMostOneRewrite ==
    /\ \A i \in 1..Len(dom) :
          dom[i].kind \in {"script", "link"} => reloads[dom[i].id] <= 1
    /\ \A i \in 1..Len(pre.dom) :
          LET e == pre.dom[i]
              d == DomainOf(e.url)
          IN  (/\ e.kind \in {"script", "link"}
               /\ InScope(e)
               /\ pre.reloads[e.id] = 1
               /\ FailureOf(e))
              => /\ collectors[d].retryTimes = PreCollector(d).retryTimes + 1
                 /\ collectors[d].failed = Append(PreCollector(d).failed, e.url)
                 /\ reloads = pre.reloads
                 /\ dom = pre.dom

\* a script or stylesheet that was reloaded once has failed again
C1_Witness ==
    \E i \in 1..Len(pre.dom) :
        /\ pre.dom[i].kind \in {"script", "link"}
        /\ InScope(pre.dom[i])
        /\ pre.reloads[pre.dom[i].id] = 1
        /\ FailureOf(pre.dom[i])
        /\ Fails # {}
        /\ \E f \in Fails : Owned(f, "onRetry") # {}

(* ------------------------------- C2 ---------------------------------- *)
\* C2: the k-th failure notification of a domain that reaches the
\* bookkeeping invokes onFail, once and with the logical path of the URL,
\* if and only if k > maxRetryCount; onFail is invoked for nothing else.
C2_ThresholdBoundary ==
    /\ \A i \in Fails :
          /\ (Log[i].k > N) <=> (Owned(i, "onFail") # {})
          /\ Cardinality(Owned(i, "onFail")) <= 1
          /\ \A j \in Owned(i, "onFail") :
                /\ Log[j].el = Log[i].el
                /\ Log[j].arg = LogicalPath(Log[i].url)
    /\ \A j \in 1..Len(Log) :
          Log[j].cb = "onFail" => \E i \in Fails : j \in Owned(i, "onFail")
    /\ \A i \in 1..Len(pre.dom) :
          LET e == pre.dom[i]
          IN  (InScope(e) /\ FailureOf(e))
              => /\ Fails = {1}
                 /\ Log[1].el = e.id
                 /\ Log[1].url = e.url
                 /\ Log[1].k = pre.notified[DomainOf(e.url)] + 1

\* the (N+1)-th failure of a domain, with N >= 1, has invoked onFail
C2_Witness ==
    /\ N >= 1
    /\ \E i \in Fails : Log[i].k = N + 1 /\ Owned(i, "onFail") # {}

(* ------------------------------- C3 ---------------------------------- *)
\* the failure logged at index i led to no reload and no onRetry call
NoRewrite(i) ==
    /\ Owned(i, "onRetry") = {}
    /\ reloads[Log[i].el] = pre.reloads[Log[i].el]
    /\ Log[i].el \notin (retryCache \ pre.cache)

\* C3 as stated: a failure that finds the retries exhausted or no fallback
\* domain invokes onFail exactly once and rewrites nothing.
C3_AsStated ==
    \A i \in Fails :
        (Log[i].rc > N \/ Fallback(Log[i].arg[1]) = "")
        => Cardinality(Owned(i, "onFail")) = 1 /\ NoRewrite(i)

\* C3, amended: onFail is invoked exactly once when the retries are exhausted
\* (retryTimes > maxRetryCount), with or without a fallback domain; when only
\* the fallback domain is missing onFail is not invoked; in both cases
\* nothing is rewritten.
C3_TerminalFailure ==
    \A i \in Fails :
        /\ Log[i].rc > N
           => Cardinality(Owned(i, "onFail")) = 1 /\ NoRewrite(i)
        /\ (Log[i].rc <= N /\ Fallback(Log[i].arg[1]) = "")
           => Owned(i, "onFail") = {} /\ NoRewrite(i)

\* a failure under a domain without fallback has exhausted the retries and
\* onFail was invoked for it
C3_Witness ==
    \E i \in Fails :
        /\ Log[i].rc > N
        /\ Fallback(Log[i].arg[1]) = ""
        /\ Owned(i, "onFail") # {}

(* ------------------------------- C4 ---------------------------------- *)
\* C4: for a URL whose domain is no key of opts.domain, no handler and no
\* scan creates or changes a collector or invokes onRetry, onSuccess or onFail.
C4_UnclassifiedUntouched ==
    /\ DOMAIN collectors \subseteq DOMAIN opts.domain
    /\ \A i \in 1..Len(Log) : Classified(Log[i].url)
    /\ (last.op \in {"error", "load"} /\ ~Classified(last.url))
       => Log = <<>> /\ collectors = pre.col

(* ------------------------------- C5 ---------------------------------- *)
\* C5: an element carrying the ignore marker never gets its URL into a
\* succeeded or failed list and never triggers onRetry, onSuccess or onFail,
\* in the error handler, the load handler or the scan.
Lists(col, d) ==
    IF d \in DOMAIN col THEN <<col[d].succeeded, col[d].failed>> ELSE <<<<>>, <<>>>>

C5_IgnoreMarker ==
    /\ \A i \in 1..Len(Log) : ~Elem(dom, Log[i].el).ignore
    /\ (last.op \in {"error", "load"} /\ Elem(pre.dom, last.el).ignore)
       => \A d \in DOMAIN collectors : Lists(collectors, d) = Lists(pre.col, d)
    /\ (last.op = "scan" /\ \A i \in 1..Len(pre.dom) : pre.dom[i].ignore)
       => \A d \in DOMAIN collectors : Lists(collectors, d) = Lists(pre.col, d)

(* ------------------------------- C6 ---------------------------------- *)
\* cand is orig with the first occurrence of token from replaced by to
FirstReplaced(cand, orig, from, to) ==
    \E p \in 1..Len(orig) :
        /\ orig[p] = from
        /\ \A q \in 1..(p - 1) : orig[q] # from
        /\ Len(cand) = Len(orig)
        /\ cand[p] = to
        /\ \A q \in 1..Len(orig) : q # p => cand[q] = orig[q]

\* the first failure of domain d, logged at index i, called onRetry once, with
\* the candidate, the original URL and a collector whose retryTimes is 1
FirstFailureRetried(i) ==
    /\ Cardinality(Owned(i, "onRetry")) = 1
    /\ \A j \in Owned(i, "onRetry") :
          /\ Log[j].url = Log[i].url
          /\ FirstReplaced(Log[j].arg, Log[i].url, Log[i].arg[1],
                           Fallback(Log[i].arg[1]))
          /\ Log[j].rc = 1

\* C6 as stated: the first failure under a domain with a fallback calls
\* onRetry exactly once, with the first occurrence of the domain replaced and
\* retryCount 1.
C6_AsStated ==
    \A i \in Fails :
        (Log[i].k = 1 /\ Fallback(Log[i].arg[1]) # "") => FirstFailureRetried(i)

\* C6, amended: the same, provided maxRetryCount >= 1 (with maxRetryCount = 0
\* the first failure is already final: onFail is called and onRetry is not).
C6_FirstFailure ==
    \A i \in Fails :
        (N >= 1 /\ Log[i].k = 1 /\ Fallback(Log[i].arg[1]) # "")
        => FirstFailureRetried(i)

\* the first failure of a URL that holds its domain twice has called onRetry
C6_Witness ==
    \E i \in Fails :
        /\ N >= 1 /\ Log[i].k = 1
        /\ Log[i].url = Url("a.com", "a.com")
        /\ \E j \in Owned(i, "onRetry") : Log[j].arg = Url("b.com", "a.com")

(* ------------------------------- C7 ---------------------------------- *)
\* C7: a load notification for a stylesheet (classified, not ignore-marked)
\* whose rule list can be read and is empty goes through the failure path:
\* retryTimes of its domain grows by one and the URL is appended to failed;
\* nothing is appended to succeeded and onSuccess is not invoked.
C7_EmptySheetIsFailure ==
    \A i \in 1..Len(pre.dom) :
        LET e == pre.dom[i]
            d == DomainOf(e.url)
        IN  (/\ last.op = "load" /\ last.el = e.id
             /\ e.kind = "link" /\ InScope(e)
             /\ last.obs[e.id] = "empty")
            => /\ Fails = {1}
               /\ collectors[d].retryTimes = PreCollector(d).retryTimes + 1
               /\ collectors[d].failed = Append(PreCollector(d).failed, e.url)
               /\ collectors[d].succeeded = PreCollector(d).succeeded
               /\ \A j \in 1..Len(Log) : Log[j].cb # "onSuccess"

\* a stylesheet's load notification met an empty rule list
C7_Witness ==
    /\ last.op = "load"
    /\ \E i \in 1..Len(pre.dom) :
          /\ pre.dom[i].id = last.el
          /\ pre.dom[i].kind = "link" /\ InScope(pre.dom[i])
          /\ last.obs[last.el] = "empty"
    /\ Fails = {1}

(* ------------------------------- C8 ---------------------------------- *)
\* the scenario: opts.domain = {a.com: b.com}; the document holds one image,
\* first seen at http://a.com/i.png; two notifications were delivered, both
\* failures of the image for which onRetry returned a URL
C8_Scenario ==
    /\ opts.domain = ("a.com" :> "b.com")
    /\ Len(dom) = 1
    /\ dom[1].kind = "img"
    /\ ~scanned
    /\ nEvents = 2
    /\ streak = [el |-> dom[1].id, n |-> 2]
    /\ "a.com" \in DOMAIN collectors
    /\ collectors["a.com"].failed # <<>>
    /\ collectors["a.com"].failed[1] = Url("a.com", "i.png")

\* C8: with opts.domain = {a.com: b.com}, an image at http://a.com/i.png that
\* fails twice in a row, onRetry returning a URL both times, has been
\* reloaded twice (the retryCache does not restrict images) and the failed
\* list of its collector has length 2.
C8_ImageTwice ==
    C8_Scenario
    => /\ reloads[dom[1].id] = 2
       /\ Len(collectors["a.com"].failed) = 2
       /\ retryCache = {}

C8_Witness == C8_Scenario /\ reloads[dom[1].id] = 2

(* ------------------------------- C9 ---------------------------------- *)
\* C9: when onRetry returns null for a failure, the element is not reloaded
\* or rewritten, it is not put into the retryCache, and no error is thrown.
C9_NullAborts ==
    \A j \in 1..Len(Log) :
        (Log[j].cb = "onRetry" /\ Log[j].ret = "null")
        => /\ reloads[Log[j].el] = pre.reloads[Log[j].el]
           /\ Elem(dom, Log[j].el) = Elem(pre.dom, Log[j].el)
           /\ Log[j].el \notin (retryCache \ pre.cache)
           /\ (j = Len(Log) => ~last.thrown)
           /\ (last.op \in {"error", "load"}
               => dom = pre.dom /\ reloads = pre.reloads /\ retryCache = pre.cache)

\* a script or stylesheet for which onRetry once returned null has been
\* rewritten by a later failure
C9_Witness ==
    \E i \in 1..Len(pre.dom) :
        LET e == pre.dom[i]
        IN  /\ e.kind \in {"script", "link"}
            /\ e.id \in pre.vetoed
            /\ pre.reloads[e.id] = 0
            /\ reloads[e.id] = 1

(* ------------------------------- C10 --------------------------------- *)
\* C10: when onRetry returns a value that is neither a string nor null, the
\* handler ends there with an Error no one catches (the error handler, the
\* load handler and the scan alike), the element is not reloaded and not put
\* into the retryCache; nothing else throws.
C10_NonStringThrows ==
    /\ \A j \in 1..Len(Log) :
          (Log[j].cb = "onRetry" /\ Log[j].ret = "other")
          => /\ last.thrown
             /\ j = Len(Log)
             /\ reloads[Log[j].el] = pre.reloads[Log[j].el]
             /\ Elem(dom, Log[j].el) = Elem(pre.dom, Log[j].el)
             /\ Log[j].el \notin (retryCache \ pre.cache)
    /\ last.thrown
       => /\ Log # <<>>
          /\ Log[Len(Log)].cb = "onRetry"
          /\ Log[Len(Log)].ret = "other"

\* the scan was ended by the Error, after it had dealt with another element
C10_Witness ==
    /\ last.op = "scan"
    /\ last.thrown
    /\ Len(Log) >= 3

(* ------------------------ reading a step's log ----------------------- *)
\* the entries cb of the log that are about element id
EntriesOf(id, cb) == {j \in 1..Len(Log) : Log[j].el = id /\ Log[j].cb = cb}

\* the entries of the log that are about element id
AllEntriesOf(id) == {j \in 1..Len(Log) : Log[j].el = id}

\* the URLs of the entries cb logged for domain d, in the order of the log
UrlsLogged(d, cb) ==
    LET sel == SelectSeq(Log, LAMBDA x : x.cb = cb /\ x.arg = <<d>>)
    IN  [i \in 1..Len(sel) |-> sel[i].url]

\* the collectors after the latest step are those before it with one added
\* to retryTimes and the URL appended to failed per failure logged, and the
\* URL appended to succeeded per success logged
Booked ==
    \A d \in DOMAIN collectors :
        /\ collectors[d].retryTimes =
              PreCollector(d).retryTimes + Len(UrlsLogged(d, "fail"))
        /\ collectors[d].failed = PreCollector(d).failed \o UrlsLogged(d, "fail")
        /\ collectors[d].succeeded =
              PreCollector(d).succeeded \o UrlsLogged(d, "succeeded")

\* the order in which the scan takes the elements: scripts, links, images,
\* each kind in document order
ScanRank(e) ==
    CASE e.kind = "script" -> 1
      [] e.kind = "link"   -> 2
      [] e.kind = "img"    -> 3
      [] OTHER             -> 4

ScanBefore(e, f) ==
    \/ ScanRank(e) < ScanRank(f)
    \/ ScanRank(e) = ScanRank(f) /\ PosOf(pre.dom, e.id) <= PosOf(pre.dom, f.id)

\* the scan got as far as element e: no Error ended it before
ScanReached(e) ==
    last.thrown => ScanBefore(e, Elem(pre.dom, Log[Len(Log)].el))

(* ------------------------------- C11 --------------------------------- *)
\* C11: every identifier in the retryCache is that of a script or stylesheet
\* element that was reloaded by loadNextScript / loadNextLink; a hooked
\* script or stylesheet is neither reloaded nor put into the retryCache.
C11_LedgerMeansReloaded ==
    /\ \A id \in retryCache :
          /\ Elem(dom, id).kind \in {"script", "link"}
          /\ reloads[id] >= 1
    /\ \A i \in 1..Len(dom) :
          (dom[i].kind \in {"script", "link"} /\ dom[i].hooked)
          => dom[i].id \notin retryCache /\ reloads[dom[i].id] = 0

(* ------------------------------- C12 --------------------------------- *)
\* C12: the scan skips the elements carrying the ignore marker, scripts,
\* stylesheets and images alike: it appends nothing to succeeded for them and
\* sends none of them to errorHandler.
C12_ScanSkipsIgnored ==
    last.op = "scan"
    => \A i \in 1..Len(pre.dom) :
          pre.dom[i].ignore => AllEntriesOf(pre.dom[i].id) = {}

(* ------------------------------- C13 --------------------------------- *)
\* what the scan did with a stylesheet: sent it to errorHandler, which took
\* it into the books once, or appended its URL to succeeded, or nothing
ScanFailed(e) ==
    /\ Cardinality(EntriesOf(e.id, "fail")) = 1
    /\ EntriesOf(e.id, "succeeded") = {}
    /\ \A j \in EntriesOf(e.id, "fail") : Log[j].url = e.url

ScanSucceeded(e) ==
    /\ Cardinality(EntriesOf(e.id, "succeeded")) = 1
    /\ AllEntriesOf(e.id) = EntriesOf(e.id, "succeeded")
    /\ \A j \in EntriesOf(e.id, "succeeded") : Log[j].url = e.url

C14_ScanImages ==
    last.op = "scan"
    => /\ Booked
       /\ \A i \in 1..Len(pre.dom) :
             LET e == pre.dom[i]
             IN  (e.kind = "img" /\ InScope(e) /\ ScanReached(e))
                 => CASE last.obs[e.id] \in {"zeroW", "zeroH"} -> ScanFailed(e)
                      [] last.obs[e.id] = "ok"                -> ScanSucceeded(e)
                      [] OTHER                                -> AllEntriesOf(e.id) = {}

\* the scan found a complete image of height zero and width non-zero
C14_Witness ==
    /\ last.op = "scan"
    /\ \E i \in 1..Len(pre.dom) :
          /\ pre.dom[i].kind = "img" /\ InScope(pre.dom[i])
          /\ last.obs[pre.dom[i].id] = "zeroH"
          /\ ScanFailed(pre.dom[i])

(* ------------------------------- C15 --------------------------------- *)
\* C15: the scan appends the URL of every classified script to the succeeded
\* list of its domain, whether the script loaded or not, and never sends a
\* script to errorHandler: no failure is booked for it and onRetry, onSuccess
\* and onFail are not called for it.
C15_ScanScripts ==
    last.op = "scan"
    => /\ Booked
       /\ \A i \in 1..Len(pre.dom) :
             LET e == pre.dom[i]
             IN  (e.kind = "script" /\ Classified(e.url))
                 => /\ ScanSucceeded(e)
                    /\ \E j \in EntriesOf(e.id, "succeeded") :
                          Log[j].arg = <<DomainOf(e.url)>>

\* the scan recorded as succeeded a script whose failure had been handled
C15_Witness ==
    /\ last.op = "scan"
    /\ \E i \in 1..Len(pre.dom) :
          /\ pre.dom[i].kind = "script"
          /\ pre.reloads[pre.dom[i].id] = 1
          /\ ScanSucceeded(pre.dom[i])

(* ------------------------------- C16 --------------------------------- *)
\* the fields of the collector of domain d in a store
Fields(col, d) == IF d \in DOMAIN col THEN col[d] ELSE NewCollector

\* C16: a load notification for a classified stylesheet whose rules cannot be
\* read (getCssRules returns null) is skipped: no field of a collector
\* changes, errorHandler is not entered and no callback is called.
C16_OpaqueSheetSkipped ==
    \A i \in 1..Len(pre.dom) :
        LET e == pre.dom[i]
        IN  (/\ last.op = "load" /\ last.el = e.id
             /\ e.kind = "link" /\ e.rel = "stylesheet" /\ Classified(e.url)
             /\ last.obs[e.id] \in {"absent", "opaque"})
            => /\ Log = <<>>
               /\ \A d \in Hosts : Fields(collectors, d) = Fields(pre.col, d)
               /\ dom = pre.dom
               /\ reloads = pre.reloads
               /\ retryCache = pre.cache
               /\ ~last.thrown

\* a load notification met a stylesheet whose rules cannot be read, after a
\* failure of the same domain had been booked
C16_Witness ==
    /\ last.op = "load"
    /\ \E i \in 1..Len(pre.dom) :
          /\ pre.dom[i].id = last.el
          /\ pre.dom[i].kind = "link" /\ InScope(pre.dom[i])
          /\ last.obs[last.el] = "opaque"
          /\ DomainOf(pre.dom[i].url) \in DOMAIN pre.col
          /\ pre.col[DomainOf(pre.dom[i].url)].retryTimes >= 1

(* ------------------------------- C17 --------------------------------- *)
\* the URL is in a list of the collector of its domain before the latest step
Recorded(url) ==
    LET c == PreCollector(DomainOf(url))
    IN  \/ \E j \in 1..Len(c.succeeded) : c.succeeded[j] = url
        \/ \E j \in 1..Len(c.failed) : c.failed[j] = url

\* C17: an outcome is recorded once.  When a live handler has processed the
\* notification of an element before the scan runs, the scan records nothing
\* for that element: a script or stylesheet whose failure a live handler
\* retried, and the only element of a document whose URL a live handler put
\* into a list.
C17_RecordedOnce ==
    last.op = "scan"
    => /\ \A i \in 1..Len(pre.dom) :
             LET e == pre.dom[i]
             IN  (e.kind \in {"script", "link"} /\ pre.reloads[e.id] >= 1)
                 => AllEntriesOf(e.id) = {}
       /\ (/\ Len(pre.dom) = 1
           /\ pre.reloads[pre.dom[1].id] = 0
           /\ Classified(pre.dom[1].url)
           /\ Recorded(pre.dom[1].url))
          => AllEntriesOf(pre.dom[1].id) = {}

(* ------------------------------- C18 --------------------------------- *)
\* C18: for every domain onRetry is called, and so a reload is issued, at
\* most maxRetryCount times; a failure that finds retryTimes beyond
\* maxRetryCount calls onRetry for nothing and rewrites nothing; no failure
\* calls both onFail and onRetry.
C18_RetriesBounded ==
    /\ \A h \in Hosts :
          /\ tally[h].onRetry <= N
          /\ tally[h].reloads <= tally[h].onRetry
    /\ \A i \in Fails :
          /\ Log[i].rc > N => Owned(i, "onRetry") = {} /\ NoRewrite(i)
          /\ ~(Owned(i, "onFail") # {} /\ Owned(i, "onRetry") # {})

\* a domain has used all its retries, each with a reload, and a later
\* failure under it was final
C18_Witness ==
    /\ N >= 2
    /\ \E i \in Fails :
          /\ Log[i].rc > N
          /\ tally[Log[i].arg[1]].onRetry = N
          /\ tally[Log[i].arg[1]].reloads = N
          /\ Owned(i, "onFail") # {}

(* ------------------------------- C19 --------------------------------- *)
IsPrefix(s, t) == Len(s) <= Len(t) /\ SubSeq(t, 1, Len(s)) = s

\* C19: retryTimes of every collector is the length of its failed list;
\* retryTimes never decreases, and failed and succeeded only grow at the end.
C19_AppendOnly ==
    /\ [](\A d \in DOMAIN collectors :
             collectors[d].retryTimes = Len(collectors[d].failed))
    /\ [][\A d \in DOMAIN collectors :
             /\ d \in DOMAIN collectors'
             /\ collectors'[d].retryTimes >= collectors[d].retryTimes
             /\ IsPrefix(collectors[d].failed, collectors'[d].failed)
             /\ IsPrefix(collectors[d].succeeded, collectors'[d].succeeded)]_vars

\* a collector with two failures and a success booked
C19_Witness ==
    \E d \in DOMAIN collectors :
        /\ collectors[d].retryTimes = 2
        /\ Len(collectors[d].failed) = 2
        /\ Len(collectors[d].succeeded) >= 1

(* ------------------------------- C20 --------------------------------- *)
\* the page has brought a resource the failure path keeps books for and
\* whose reload is not left to another party
ResourceAdded ==
    /\ last.op = "add"
    /\ InScope(Elem(dom, last.el))
    /\ ~(Elem(dom, last.el).kind \in {"script", "link"} /\ Elem(dom, last.el).hooked)

OnFailInvoked == \E j \in 1..Len(Log) : Log[j].cb = "onFail"

\* onRetry has returned something else than a URL
NoUrlReturned == vetoed # {} \/ last.thrown

\* every fallback domain is a key of the map with a fallback of its own
Closed(map) ==
    \A d \in DOMAIN map : map[d] \in DOMAIN map /\ map[map[d]] # ""

\* C20 as stated: when every load attempt of a classified resource fails and
\* each failure is notified, onFail is eventually invoked for it, and from
\* some point on no load attempt is outstanding (onRetry returning a URL
\* whenever it is called).
C20_AsStated ==
    /\ ResourceAdded ~> (OnFailInvoked \/ NoUrlReturned)
    /\ <>[](Outstanding = 0)

\* C20, amended: the same provided every fallback domain of the map is itself
\* a key with a fallback, as in the cyclic map; under any map, from some point
\* on no load attempt is outstanding.
C20_Terminates ==
    /\ (ResourceAdded /\ Closed(opts.domain)) ~> (OnFailInvoked \/ NoUrlReturned)
    /\ <>[](Outstanding = 0)

\* under the cyclic map a script was reloaded on each domain and its third
\* failure invoked onFail
C20_Witness ==
    /\ Closed(opts.domain)
    /\ N = 1
    /\ Len(dom) = 3
    /\ dom[1].kind = "script"
    /\ nEvents = 3
    /\ OnFailInvoked

====
